---- MODULE Spec2Model ----
(***************************************************************************)
(* Model of Resize (src/vips.go): the format gate, the dimension planner,  *)
(* the shrink strategy, and the shrink / affine / placement / encode       *)
(* stages with the libvips collaborators they call.                        *)
(*                                                                         *)
(* Arithmetic.  Go computes factor and residual in float64.  They are      *)
(* modelled as exact rationals <<num, den>> in lowest terms.  Within the   *)
(* bounds used here (and one above) floor() of the float64 quotients of    *)
(* lines 144 and 148 equals floor() of the exact quotient; the smallest    *)
(* deviations are inWidth = 9 with Height = 7 (line 148 yields 6) and      *)
(* inWidth = 7, inHeight = 35 with Width = 3 (line 144 yields 14).         *)
(*                                                                         *)
(* Collaborators.  The cgo wrappers of vips.h and libvips are outside      *)
(* src/.  Each collaborator that reports a status may fail on any call.    *)
(* On success the size of the raster it produces is: the input size for a  *)
(* load or copy; ceil(size / n) for the JPEG shrink-on-load (libjpeg's     *)
(* scaled output size); any of floor, nearest, ceil of the exact result    *)
(* for vips_shrink and vips_affine (libvips releases differ); the          *)
(* requested rectangle for extract_area and embed.                         *)
(***************************************************************************)
EXTENDS Integers, Sequences, FiniteSets, TLC

\* ---------------------------------------------------------------- bounds
\* Input sizes are 1..MaxIn and BigIn; BigIn is the one size large enough
\* for a decode-time shrink of 8 to be followed by a raster shrink
\* (factor >= 16).  Requested sizes are 0..MaxReq.
MaxIn == 6
BigIn == 16
MaxReq == 4

\* ------------------------------------------------------------- constants
MARKER_JPEG == <<255, 216>>
MARKER_PNG == <<137, 80>>
UNKNOWN == "UNKNOWN"
JPEG == "JPEG"
PNG == "PNG"
CENTRE == "CENTRE"
NORTH == "NORTH"
EAST == "EAST"
SOUTH == "SOUTH"
WEST == "WEST"
Gravities == {CENTRE, NORTH, EAST, SOUTH, WEST}
HeadLen == 2

Bytes == {0, 80, 137, 216, 255}
ErrUnknownFormat == "unknown image format"
ErrEOF == "EOF"
ErrIO == "read error"
ErrResize == "resize error"
NoErr == "nil"

\* ------------------------------------------------------- integer helpers
Min(a, b) == IF a < b THEN a ELSE b
Max(a, b) == IF a > b THEN a ELSE b

\* Go's integer division truncates toward zero.
GoDiv(a, b) == IF a >= 0 THEN a \div b ELSE -((-a) \div b)

RECURSIVE GCD(_, _)
GCD(a, b) == IF b = 0 THEN a ELSE GCD(b, a % b)

\* ------------------------------------------------- float64 as rationals
Rat(n, d) == LET g == GCD(n, d) IN IF g = 0 THEN <<0, 1>> ELSE <<n \div g, d \div g>>
Zero == <<0, 1>>
One == <<1, 1>>
RDiv(a, b) == Rat(a[1] * b[2], a[2] * b[1])
RLess(a, b) == a[1] * b[2] < b[1] * a[2]
RMin(a, b) == IF RLess(b, a) THEN b ELSE a
RMax(a, b) == IF RLess(a, b) THEN b ELSE a
Floor(a) == a[1] \div a[2]
Ceil(a) == (a[1] + a[2] - 1) \div a[2]
Nearest(a) == (2 * a[1] + a[2]) \div (2 * a[2])

\* ------------------------------------------------ the dimension planner
\* Mutant of BoxFactor: the crop flag is not looked at.
BoxFactor_Fit(xf, yf, crop) == RMax(xf, yf)

\* Lines 136-140: the factor of a request with both sides fixed.
BoxFactor(xf, yf, crop) == IF crop THEN RMin(xf, yf) ELSE RMax(xf, yf)

\* Mutant of AutoHeight: rounds up.
AutoHeight_Ceil(inH, f) == Ceil(RDiv(Rat(inH, 1), f))

\* Line 144: o.Height = int(math.Floor(float64(inHeight) / factor)).
AutoHeight(inH, f) == Floor(RDiv(Rat(inH, 1), f))

\* Line 148: o.Width = int(math.Floor(float64(inWidth) / factor)).
AutoWidth(inW, f) == Floor(RDiv(Rat(inW, 1), f))

\* Lines 131-154: factor and the output size from the request.
Planner(inW, inH, opt) ==
    CASE opt.Width > 0 /\ opt.Height > 0 ->
            [factor |-> BoxFactor(Rat(inW, opt.Width), Rat(inH, opt.Height), opt.Crop),
             Width |-> opt.Width, Height |-> opt.Height]
      [] opt.Width > 0 /\ opt.Height <= 0 ->
            LET f == Rat(inW, opt.Width)
            IN [factor |-> f, Width |-> opt.Width, Height |-> AutoHeight(inH, f)]
      [] opt.Width <= 0 /\ opt.Height > 0 ->
            LET f == Rat(inW, opt.Height)
            IN [factor |-> f, Width |-> AutoWidth(inW, f), Height |-> opt.Height]
      [] OTHER ->
            [factor |-> One, Width |-> inW, Height |-> inH]

\* Mutant of IntegralShrink: the clamp to 1 is missing.
IntegralShrink_NoClamp(f) == Floor(f)

\* Lines 157-160 and 198: shrink = floor(factor), at least 1.
IntegralShrink(f) == Max(Floor(f), 1)

\* Lines 163 and 199: residual = float64(shrink) / factor.
Residual(s, f) == RDiv(Rat(s, 1), f)

\* Mutant of GuardFires: both sides must undershoot.
GuardFires_Both(inW, inH, enlarge, w, h) == ~enlarge /\ (inW < w /\ inH < h)

\* Line 167: the condition of the non-enlargement guard.
GuardFires(inW, inH, enlarge, w, h) == ~enlarge /\ (inW < w \/ inH < h)

\* Lines 166-174: the non-enlargement guard applied to a plan p.
EnlargeGuard(inW, inH, enlarge, p) ==
    IF GuardFires(inW, inH, enlarge, p.Width, p.Height)
    THEN [factor |-> One, shrink |-> 1, residual |-> Zero,
          Width |-> inW, Height |-> inH]
    ELSE p

\* Lines 127-174: the plan handed to the shrink strategy.
PlanOf(inW, inH, opt) ==
    LET d == Planner(inW, inH, opt)
        s == IntegralShrink(d.factor)
    IN EnlargeGuard(inW, inH, opt.Enlarge,
                    [factor |-> d.factor, shrink |-> s,
                     residual |-> Residual(s, d.factor),
                     Width |-> d.Width, Height |-> d.Height])

\* -------------------------------------------------- the shrink strategy
\* Lines 177-190: the decode-time shrink, JPEG only.
ShrinkOnLoadOf(t, s) ==
    IF t = JPEG
    THEN CASE s >= 8 -> 8
           [] s >= 4 /\ s < 8 -> 4
           [] s >= 2 /\ s < 4 -> 2
           [] OTHER -> 1
    ELSE 1

\* Lines 181, 184, 187: factor divided by the decode-time shrink.
StrategyFactor(f, sol) == IF sol > 1 THEN RDiv(f, Rat(sol, 1)) ELSE f

\* Lines 197-199: factor, shrink and residual recomputed after choosing a
\* decode-time shrink; without one the plan is kept.
Recalc(p, sol) ==
    IF sol > 1
    THEN LET f == RMax(p.factor, One)
             s == Floor(f)
         IN [p EXCEPT !.factor = f, !.shrink = s, !.residual = Residual(s, f)]
    ELSE p

\* ----------------------------------------------- collaborators' sizes
Modes == {"floor", "nearest", "ceil"}
Round(mode, r) ==
    CASE mode = "floor" -> Floor(r)
      [] mode = "nearest" -> Nearest(r)
      [] OTHER -> Ceil(r)
Valid(dim) == dim[1] >= 1 /\ dim[2] >= 1
NoImage == <<0, 0>>

\* vips_jpegload_buffer_shrink (line 201): libjpeg's scaled size.
LoadShrunkSize(dim, sol) == <<Ceil(Rat(dim[1], sol)), Ceil(Rat(dim[2], sol))>>

\* vips_shrink (line 214) by an integral factor.
ShrinkSize(dim, s, mode) == <<Round(mode, Rat(dim[1], s)), Round(mode, Rat(dim[2], s))>>

\* vips_affine (line 242) with the matrix (r, 0, 0, r).
AffineSize(dim, r, mode) ==
    <<Round(mode, Rat(dim[1] * r[1], r[2])), Round(mode, Rat(dim[2] * r[1], r[2]))>>

\* vips_extract_area (line 264) accepts a rectangle inside its input only.
ExtractAccepts(dim, left, top, w, h) ==
    /\ w >= 1 /\ h >= 1 /\ left >= 0 /\ top >= 0
    /\ left + w <= dim[1] /\ top + h <= dim[2]

\* vips_embed (line 272) needs a non-empty canvas.
EmbedAccepts(w, h) == w >= 1 /\ h >= 1

\* ------------------------------------------------------ stage arithmetic
\* Lines 223-229: residual from the required and the shrunk size.
ShrunkResidual(dim, w, h, crop) ==
    LET residualx == Rat(w, dim[1])
        residualy == Rat(h, dim[2])
    IN IF crop THEN RMax(residualx, residualy) ELSE RMin(residualx, residualy)

\* Lines 318-336.
sharpCalcCrop(inW, inH, outW, outH, gravity) ==
    CASE gravity = NORTH -> <<GoDiv(inW - outW + 1, 2), 0>>
      [] gravity = EAST -> <<inW - outW, GoDiv(inH - outH + 1, 2)>>
      [] gravity = SOUTH -> <<GoDiv(inW - outW + 1, 2), inH - outH>>
      [] gravity = WEST -> <<0, GoDiv(inH - outH + 1, 2)>>
      [] OTHER -> <<GoDiv(inW - outW + 1, 2), GoDiv(inH - outH + 1, 2)>>

\* Lines 262-263: the output size clamped to the affined size.
CropSize(dim, w, h) == <<Min(dim[1], w), Min(dim[2], h)>>

\* Lines 270-271.
EmbedOffset(dim, w, h) == <<GoDiv(w - dim[1], 2), GoDiv(h - dim[2], 2)>>

\* Lines 258-279: which placement is taken, and the rectangle it passes.
Placement(dim, w, h, crop, gravity) ==
    IF dim[1] # w \/ dim[2] # h
    THEN IF crop
         THEN [kind |-> "crop", at |-> sharpCalcCrop(dim[1], dim[2], w, h, gravity),
               size |-> CropSize(dim, w, h)]
         ELSE [kind |-> "embed", at |-> EmbedOffset(dim, w, h), size |-> <<w, h>>]
    ELSE [kind |-> "copy", at |-> <<0, 0>>, size |-> dim]

\* Lines 212-232 without the failure exit: the raster shrink (or the copy)
\* with the residual it leaves.  ok is whether vips_shrink can succeed.
ShrinkStage(dim, s, res, w, h, crop, mode) ==
    IF s > 1
    THEN LET d == ShrinkSize(dim, s, mode)
         IN [called |-> TRUE, ok |-> Valid(d), dim |-> d,
             residual |-> IF Valid(d) THEN ShrunkResidual(d, w, h, crop) ELSE res]
    ELSE [called |-> FALSE, ok |-> TRUE, dim |-> dim, residual |-> res]

\* Lines 238-249 without the failure exit: the affine pass, or the copy.
AffineStage(dim, res, mode) ==
    IF res # Zero
    THEN LET d == AffineSize(dim, res, mode)
         IN [called |-> TRUE, ok |-> Valid(d), dim |-> d]
    ELSE [called |-> FALSE, ok |-> TRUE, dim |-> dim]

\* Whether the collaborator of a placement accepts its arguments.
PlacementAccepted(dim, pl) ==
    CASE pl.kind = "crop" -> ExtractAccepts(dim, pl.at[1], pl.at[2], pl.size[1], pl.size[2])
      [] pl.kind = "embed" -> EmbedAccepts(pl.size[1], pl.size[2])
      [] OTHER -> TRUE

\* Lines 127-279 end to end: the sizes Resize can end with when every
\* collaborator that can succeed does, over the roundings of vips_shrink
\* and vips_affine.
FinalSizes(t, inW, inH, opt, g) ==
    LET p0 == PlanOf(inW, inH, opt)
        sol == ShrinkOnLoadOf(t, p0.shrink)
        p == Recalc([p0 EXCEPT !.factor = StrategyFactor(p0.factor, sol)], sol)
        loaded == IF sol > 1 THEN LoadShrunkSize(<<inW, inH>>, sol) ELSE <<inW, inH>>
        shrunkS == {st \in {ShrinkStage(loaded, p.shrink, p.residual, p.Width, p.Height,
                                        opt.Crop, m) : m \in Modes} : st.ok}
        affinedS == {a \in {AffineStage(st.dim, st.residual, m) :
                                st \in shrunkS, m \in Modes} : a.ok}
        placedS == {[dim |-> a.dim, pl |-> Placement(a.dim, p.Width, p.Height, opt.Crop, g)] :
                        a \in affinedS}
    IN {x.pl.size : x \in {y \in placedS : PlacementAccepted(y.dim, y.pl)}}

\* ------------------------------------------------------------- the state
VARIABLES
    pc,            \* the stage Resize is about to run, "done" once it returned
    content,       \* the first bytes of the stream behind the reader (input)
    unread,        \* what the reader has not delivered yet
    buf,           \* line 79: the two-byte buffer
    typ,           \* line 86
    o,             \* the Options value, updated as Resize updates it
    req,           \* the Options value as passed by the caller
    gravity,       \* o.Gravity, "unread" until line 261 reads it
    inWidth,       \* line 124
    inHeight,      \* line 125
    factor,        \* line 128
    shrink,        \* line 157
    residual,      \* line 163
    shrinkOnLoad,  \* line 177
    plan,          \* o.Width, o.Height as the planner and the guard left them
    shrunkOnLoad,  \* size of the raster of line 192
    shrunk,        \* size of the raster of line 209
    affined,       \* size of the raster of line 235
    canvased,      \* size of the raster of line 255
    placed,        \* the branch of lines 258-279 taken, and its rectangle
    created,       \* the handles created so far
    released,      \* how many times each handle was released
    deferred,      \* the handles the deferred im_close calls captured
    calls,         \* the status-reporting collaborators invoked, in order,
                   \* each with a flag: whether it returned status 0
    result,        \* "none" while running, then "bytes" or "nil"
    err            \* the error Resize returned

vars == <<pc, content, unread, buf, typ, o, req, gravity, inWidth, inHeight, factor, shrink,
          residual, shrinkOnLoad, plan, shrunkOnLoad, shrunk, affined,
          canvased, placed, created, released, deferred, calls, result, err>>

ioVars == <<content, unread, buf>>
optVars == <<o, req, gravity, inWidth, inHeight>>
planVars == <<factor, shrink, residual, shrinkOnLoad, plan>>
imgVars == <<shrunkOnLoad, shrunk, affined, canvased, placed>>
handleVars == <<created, released, deferred>>
outVars == <<result, err>>

Handles == {"in.new", "in", "shrunkOnLoad.new", "shrunkOnLoad", "shrunk.new", "shrunk",
            "affined.new", "affined", "interpolator", "canvased.new", "canvased",
            "colourspaced.new", "colourspaced"}

\* The Options fields the stages read.  Gravity is read by the crop branch
\* alone (line 261) and is drawn there, so that runs which differ only in a
\* gravity nothing has read yet are one run; Extend, Interpolator and
\* Quality are passed through to the collaborators and are left out.
Options == [Width : 0..MaxReq, Height : 0..MaxReq, Crop : BOOLEAN, Enlarge : BOOLEAN]
NoOptions == [Width |-> 0, Height |-> 0, Crop |-> FALSE, Enlarge |-> FALSE]
InSizes == (1..MaxIn) \cup {BigIn}
NoPlacement == [kind |-> "none", at |-> <<0, 0>>, size |-> <<0, 0>>]

\* The streams: up to HeadLen leading bytes, and whether more bytes follow
\* them (only a stream with a whole header has a payload).
Heads == UNION {[1..n -> Bytes] : n \in 0..HeadLen}
Streams == {s \in [head : Heads, payload : BOOLEAN] :
                s.payload => Len(s.head) = HeadLen}

Init ==
    /\ pc = "read"
    /\ \E s \in Streams : content = s.head /\ unread = s
    /\ buf = <<0, 0>>
    /\ typ = UNKNOWN
    /\ o = NoOptions /\ req = NoOptions /\ gravity = "unread"
    /\ inWidth = 0 /\ inHeight = 0
    /\ factor = Zero /\ shrink = 0 /\ residual = Zero /\ shrinkOnLoad = 0
    /\ plan = <<0, 0>>
    /\ shrunkOnLoad = NoImage /\ shrunk = NoImage /\ affined = NoImage
    /\ canvased = NoImage /\ placed = NoPlacement
    /\ created = {} /\ released = [h \in Handles |-> 0] /\ deferred = <<>>
    /\ calls = <<>>
    /\ result = "none" /\ err = NoErr

\* ------------------------------------------------------------- returning
\* The deferred im_close calls run when Resize returns; each closes the
\* handle its argument held when the defer statement ran.
RunDefers(rel, defs) ==
    [h \in Handles |-> rel[h] + Cardinality({i \in DOMAIN defs : defs[i] = h})]

\* return nil, e
Fail(e, defs) ==
    /\ pc' = "done"
    /\ result' = "nil"
    /\ err' = e
    /\ released' = RunDefers(released, defs)
    /\ deferred' = <<>>

\* ---------------------------------------------------------- format gate
\* Lines 79-83: one Read into the two-byte buffer.  A reader delivers any
\* n >= 1 of the bytes it has with a nil error, may report EOF together
\* with the last bytes, reports EOF alone at the end, and may fail.
ReadHead ==
    /\ pc = "read"
    /\ \E n \in 0..Len(unread.head), e \in {NoErr, ErrEOF, ErrIO} :
        /\ e = NoErr => n >= 1
        /\ e = ErrEOF => (n = Len(unread.head) /\ ~unread.payload)
        /\ buf' = [i \in 1..HeadLen |-> IF i <= n THEN unread.head[i] ELSE 0]
        /\ unread' = [unread EXCEPT !.head = SubSeq(unread.head, n + 1, Len(unread.head))]
        /\ IF e # NoErr
           THEN Fail(e, deferred)
           ELSE /\ pc' = "sniff"
                /\ UNCHANGED <<released, deferred, outVars>>
    /\ UNCHANGED <<content, typ, optVars, planVars, imgVars, created, calls>>

\* Lines 86-94.
Sniff(b) ==
    CASE b[1] = MARKER_JPEG[1] /\ b[2] = MARKER_JPEG[2] -> JPEG
      [] b[1] = MARKER_PNG[1] /\ b[2] = MARKER_PNG[2] -> PNG
      [] OTHER -> UNKNOWN

DetectType ==
    /\ pc = "sniff"
    /\ typ' = Sniff(buf)
    /\ IF typ' = UNKNOWN
       THEN Fail(ErrUnknownFormat, deferred)
       ELSE /\ pc' = "readall"
            /\ UNCHANGED <<released, deferred, outVars>>
    /\ UNCHANGED <<ioVars, optVars, planVars, imgVars, created, calls>>

\* Lines 97-101: ioutil.ReadAll drains the reader, or fails.  The bytes
\* appended to buf are handed to the decoders and not looked at again.
ReadRest ==
    /\ pc = "readall"
    /\ \E ok \in BOOLEAN :
        IF ok
        THEN /\ unread' = [head |-> <<>>, payload |-> FALSE]
             /\ pc' = "decode"
             /\ UNCHANGED <<released, deferred, outVars>>
        ELSE /\ Fail(ErrIO, deferred)
             /\ UNCHANGED unread
    /\ UNCHANGED <<content, buf, typ, optVars, planVars, imgVars, created, calls>>

\* ---------------------------------------------------------------- decode
\* Lines 103-125.  The Options value and the size the decoder reports are
\* drawn here, where Resize first reads them.  The status of the load is
\* not looked at.
Decode ==
    /\ pc = "decode"
    /\ \E opt \in Options, w \in InSizes, h \in InSizes, ok \in BOOLEAN :
        /\ o' = opt /\ req' = opt
        /\ UNCHANGED gravity
        /\ inWidth' = w /\ inHeight' = h
        /\ created' = created \cup {"in.new"} \cup (IF ok THEN {"in"} ELSE {})
        /\ calls' = Append(calls, <<"decode", ok>>)
    /\ deferred' = Append(deferred, "in.new")
    /\ pc' = "plan"
    /\ UNCHANGED <<ioVars, typ, planVars, imgVars, released, outVars>>

\* Lines 127-174.
Plan ==
    /\ pc = "plan"
    /\ LET p == PlanOf(inWidth, inHeight, o)
       IN /\ factor' = p.factor /\ shrink' = p.shrink /\ residual' = p.residual
          /\ o' = [o EXCEPT !.Width = p.Width, !.Height = p.Height]
          /\ plan' = <<p.Width, p.Height>>
    /\ pc' = "strategy"
    /\ UNCHANGED <<ioVars, typ, req, gravity, inWidth, inHeight, shrinkOnLoad, imgVars,
                   handleVars, calls, outVars>>

\* Lines 176-190.
Strategy ==
    /\ pc = "strategy"
    /\ shrinkOnLoad' = ShrinkOnLoadOf(typ, shrink)
    /\ factor' = StrategyFactor(factor, shrinkOnLoad')
    /\ pc' = "load"
    /\ UNCHANGED <<ioVars, typ, optVars, shrink, residual, plan, imgVars,
                   handleVars, calls, outVars>>

\* Lines 192-207.
Load ==
    /\ pc = "load"
    /\ LET p == Recalc([factor |-> factor, shrink |-> shrink, residual |-> residual],
                       shrinkOnLoad)
           defs == Append(deferred, "shrunkOnLoad.new")
       IN /\ factor' = p.factor /\ shrink' = p.shrink /\ residual' = p.residual
          /\ IF shrinkOnLoad > 1
             THEN \E ok \in BOOLEAN :
                    /\ calls' = Append(calls, <<"decode_shrink", ok>>)
                    /\ IF ok
                       THEN /\ shrunkOnLoad' = LoadShrunkSize(<<inWidth, inHeight>>, shrinkOnLoad)
                            /\ created' = created \cup {"shrunkOnLoad.new", "shrunkOnLoad"}
                            /\ deferred' = defs
                            /\ pc' = "shrink"
                            /\ UNCHANGED <<released, outVars>>
                       ELSE /\ Fail(ErrResize, defs)
                            /\ created' = created \cup {"shrunkOnLoad.new"}
                            /\ UNCHANGED shrunkOnLoad
             ELSE /\ shrunkOnLoad' = <<inWidth, inHeight>>
                  /\ created' = created \cup {"shrunkOnLoad.new", "shrunkOnLoad"}
                  /\ deferred' = defs
                  /\ pc' = "shrink"
                  /\ UNCHANGED <<calls, released, outVars>>
    /\ UNCHANGED <<ioVars, typ, optVars, shrinkOnLoad, plan, shrunk, affined,
                   canvased, placed>>

\* Lines 209-232.  vips_shrink fails on a raster it would shrink to nothing.
Shrink ==
    /\ pc = "shrink"
    /\ \E ok \in (IF shrink > 1 THEN BOOLEAN ELSE {TRUE}),
          mode \in (IF shrink > 1 THEN Modes ELSE {"floor"}) :
        LET defs == Append(deferred, "shrunk.new")
            st == ShrinkStage(shrunkOnLoad, shrink, residual, o.Width, o.Height, o.Crop, mode)
            done == ok /\ st.ok
        IN /\ calls' = IF st.called THEN Append(calls, <<"shrink", done>>) ELSE calls
           /\ IF done
              THEN /\ shrunk' = st.dim
                   /\ residual' = st.residual
                   /\ created' = created \cup {"shrunk.new", "shrunk"}
                   /\ deferred' = defs
                   /\ pc' = "affine"
                   /\ UNCHANGED <<released, outVars>>
              ELSE /\ Fail(ErrResize, defs)
                   /\ created' = created \cup {"shrunk.new"}
                   /\ UNCHANGED <<shrunk, residual>>
    /\ UNCHANGED <<ioVars, typ, optVars, factor, shrink, shrinkOnLoad, plan,
                   shrunkOnLoad, affined, canvased, placed>>

\* Lines 234-249.  The interpolator is unreferenced on line 246 only.
Affine ==
    /\ pc = "affine"
    /\ \E ok \in (IF residual # Zero THEN BOOLEAN ELSE {TRUE}),
          mode \in (IF residual # Zero THEN Modes ELSE {"floor"}) :
        LET defs == Append(deferred, "affined.new")
            st == AffineStage(shrunk, residual, mode)
            done == ok /\ st.ok
            interp == IF st.called THEN {"interpolator"} ELSE {}
        IN /\ calls' = IF st.called THEN Append(calls, <<"affine", done>>) ELSE calls
           /\ IF done
              THEN /\ affined' = st.dim
                   /\ created' = created \cup {"affined.new", "affined"} \cup interp
                   /\ released' = [h \in Handles |->
                                     IF h \in interp THEN released[h] + 1 ELSE released[h]]
                   /\ deferred' = defs
                   /\ pc' = "place"
                   /\ UNCHANGED outVars
              ELSE /\ Fail(ErrResize, defs)
                   /\ created' = created \cup {"affined.new"} \cup interp
                   /\ UNCHANGED affined
    /\ UNCHANGED <<ioVars, typ, optVars, planVars, shrunkOnLoad, shrunk, canvased, placed>>

\* Lines 251-279.
Place ==
    /\ pc = "place"
    /\ \E g \in (IF (affined[1] # o.Width \/ affined[2] # o.Height) /\ o.Crop
                 THEN Gravities ELSE {gravity}) :
        LET defs == Append(deferred, "canvased.new")
            pl == Placement(affined, o.Width, o.Height, o.Crop, g)
        IN /\ gravity' = g
           /\ placed' = pl
           /\ IF pl.kind = "copy"
              THEN /\ canvased' = affined
                   /\ created' = created \cup {"canvased.new", "canvased"}
                   /\ deferred' = defs
                   /\ pc' = "encode"
                   /\ UNCHANGED <<o, calls, released, outVars>>
              ELSE \E ok \in BOOLEAN :
                     LET done == ok /\ PlacementAccepted(affined, pl)
                     IN /\ o' = [o EXCEPT !.Width = pl.size[1], !.Height = pl.size[2]]
                        /\ calls' = Append(calls, <<IF pl.kind = "crop" THEN "extract_area"
                                                    ELSE "embed", done>>)
                        /\ IF done
                           THEN /\ canvased' = pl.size
                                /\ created' = created \cup {"canvased.new", "canvased"}
                                /\ deferred' = defs
                                /\ pc' = "encode"
                                /\ UNCHANGED <<released, outVars>>
                           ELSE /\ Fail(ErrResize, defs)
                                /\ created' = created \cup {"canvased.new"}
                                /\ UNCHANGED canvased
    /\ UNCHANGED <<ioVars, typ, req, inWidth, inHeight, planVars, shrunkOnLoad, shrunk,
                   affined>>

\* Lines 281-298: colour space, save, return.  The status of the save is
\* not looked at: Resize returns the bytes and a nil error.
Encode ==
    /\ pc = "encode"
    /\ \E ok \in BOOLEAN : calls' = Append(calls, <<"encode", ok>>)
    /\ created' = created \cup {"colourspaced.new", "colourspaced"}
    /\ released' = RunDefers(released, Append(deferred, "colourspaced.new"))
    /\ deferred' = <<>>
    /\ result' = "bytes"
    /\ err' = NoErr
    /\ pc' = "done"
    /\ UNCHANGED <<ioVars, typ, optVars, planVars, imgVars>>

Next ==
    \/ ReadHead
    \/ DetectType
    \/ ReadRest
    \/ Decode
    \/ Plan
    \/ Strategy
    \/ Load
    \/ Shrink
    \/ Affine
    \/ Place
    \/ Encode

Spec == Init /\ [][Next]_vars

\* ============================================================== claims
\* The request's output size, computed from the caller's Options and the
\* input size in integer arithmetic: the requested value, or the derived
\* value on an unconstrained axis.
Planned == plan # <<0, 0>>
OutWidth ==
    IF req.Width > 0 THEN req.Width
    ELSE IF req.Height > 0 THEN (inWidth * req.Height) \div inWidth
    ELSE inWidth
OutHeight ==
    IF req.Height > 0 THEN req.Height
    ELSE IF req.Width > 0 THEN (inHeight * req.Width) \div inWidth
    ELSE inHeight
Undershoots == inWidth < OutWidth \/ inHeight < OutHeight
AllCallsOk == \A i \in 1..Len(calls) : calls[i][2]
Returned == pc = "done" /\ result = "bytes"
\* A successful call: bytes returned, and no collaborator reported a failure.
Succeeded == pc = "done" /\ result = "bytes" /\ AllCallsOk

\* C1: with Enlarge = false and an input narrower or lower than the planned
\* output, the plan is factor = 1, shrink = 1, residual = 0 from the planner
\* on, and the raster handed to the encoder has the input's size.
NonEnlargement ==
    (Planned /\ ~req.Enlarge /\ Undershoots) =>
        /\ factor = One /\ shrink = 1 /\ residual = Zero
        /\ plan = <<inWidth, inHeight>>
        /\ pc \in {"encode", "done"} => canvased = <<inWidth, inHeight>>

NonEnlargementWitness ==
    /\ Succeeded /\ typ = JPEG /\ ~req.Enlarge /\ req.Crop
    /\ req.Width > inWidth /\ req.Height > 0 /\ req.Height <= inHeight
    /\ inWidth >= 2
    /\ canvased = <<inWidth, inHeight>>

\* C2: a crop request with both sides fixed, enlarging allowed or the input
\* large enough, that returns bytes ends with a raster of exactly Width x Height that
\* the copy or the extract-area branch produced.
CropBothFixed ==
    (/\ Returned /\ req.Width > 0 /\ req.Height > 0 /\ req.Crop
     /\ (req.Enlarge \/ (inWidth >= req.Width /\ inHeight >= req.Height))) =>
        /\ canvased = <<req.Width, req.Height>>
        /\ placed.kind \in {"copy", "crop"}

CropBothFixedWitness ==
    /\ Succeeded /\ req.Width > 0 /\ req.Height > 0 /\ req.Crop
    /\ typ = JPEG /\ shrinkOnLoad > 1 /\ residual # Zero
    /\ placed.kind = "crop" /\ gravity = EAST
    /\ canvased = <<req.Width, req.Height>>
    /\ affined # canvased

\* C3: the raster that leaves the placement stage of a successful call has
\* the size the planner and the non-enlargement guard fixed.
RoundTripSize == Succeeded => canvased = plan

\* C4: a successful call that used a decode-time shrink ends with a size
\* that the same request on an input of the same size, decoded without
\* decode-time shrink (the PNG path), can end with.
ShrinkOnLoadEquivalence ==
    (Succeeded /\ typ = JPEG /\ shrinkOnLoad > 1) =>
        \E g \in (IF gravity \in Gravities THEN {gravity} ELSE Gravities) :
            canvased \in FinalSizes(PNG, inWidth, inHeight, req, g)

\* C5: the rectangle handed to extract-area lies inside the affined raster.
CropWindowInside ==
    placed.kind = "crop" =>
        /\ placed.at[1] >= 0 /\ placed.at[2] >= 0
        /\ placed.at[1] + placed.size[1] <= affined[1]
        /\ placed.at[2] + placed.size[2] <= affined[2]

\* C6: once a collaborator has failed no later collaborator is invoked and
\* Resize returns an error and no bytes; bytes with a nil error are returned
\* only if every collaborator invoked succeeded.
FailFast ==
    /\ \A i \in 1..Len(calls) : ~calls[i][2] => i = Len(calls)
    /\ pc = "done" =>
          ((\E i \in 1..Len(calls) : ~calls[i][2]) => (result = "nil" /\ err # NoErr))

\* C7: when Resize returns, every handle it created has been released
\* exactly once.
HandlesReleasedOnce ==
    /\ \A h \in Handles : released[h] <= 1
    /\ pc = "done" => \A h \in created : released[h] = 1

\* C8: whatever the reader delivers per Read (no read failing), the type is
\* decided by the first two bytes of the stream: JPEG iff they are FF D8,
\* PNG iff they are 89 50; any other or shorter stream fails with "unknown
\* image format", no bytes, and no collaborator invoked.
Expected ==
    IF Len(content) < HeadLen THEN UNKNOWN
    ELSE IF content = MARKER_JPEG THEN JPEG
    ELSE IF content = MARKER_PNG THEN PNG
    ELSE UNKNOWN
FormatGate ==
    (pc \notin {"read", "sniff"} /\ err # ErrIO) =>
        /\ typ = Expected
        /\ Expected = UNKNOWN =>
              (pc = "done" /\ err = ErrUnknownFormat /\ result = "nil" /\ calls = <<>>)

\* C9: a width-only request without crop, on an input at least as wide (or
\* with enlarging allowed), plans Width x floor(inHeight * Width / inWidth),
\* and a call that returns bytes ends with exactly that size.
WidthOnlyAspect ==
    (/\ Planned /\ req.Width > 0 /\ req.Height = 0 /\ ~req.Crop
     /\ (inWidth >= req.Width \/ req.Enlarge)) =>
        /\ plan = <<req.Width, (inHeight * req.Width) \div inWidth>>
        /\ Returned => canvased = <<req.Width, (inHeight * req.Width) \div inWidth>>

WidthOnlyAspectWitness ==
    /\ Succeeded /\ req.Width = 4 /\ req.Height = 0 /\ ~req.Crop /\ ~req.Enlarge
    /\ inWidth = 6 /\ inHeight = 5
    /\ typ = JPEG
    /\ canvased = <<4, 3>>

\* C10 as stated: at entry to the integral shrink stage factor >= 1,
\* shrink = max(1, floor(factor)) and residual = shrink / factor.
PlanConsistency ==
    pc = "shrink" =>
        /\ factor[1] >= factor[2]
        /\ shrink = Max(1, factor[1] \div factor[2])
        /\ residual[1] * factor[1] = shrink * residual[2] * factor[2]

\* C10 amended: at entry to the integral shrink stage factor > 0 and
\* shrink = max(1, floor(factor)); factor >= 1 unless enlarging is allowed
\* and no decode-time shrink was chosen; residual = shrink / factor unless
\* the non-enlargement guard fired, and then factor = 1, shrink = 1 and
\* residual = 0.
PlanConsistencyAmended ==
    pc = "shrink" =>
        /\ factor[1] > 0 /\ factor[2] > 0
        /\ shrink = Max(1, factor[1] \div factor[2])
        /\ (~req.Enlarge \/ shrinkOnLoad > 1) => factor[1] >= factor[2]
        /\ IF ~req.Enlarge /\ Undershoots
           THEN factor = One /\ shrink = 1 /\ residual = Zero
           ELSE residual[1] * factor[1] = shrink * residual[2] * factor[2]

PlanConsistencyWitness ==
    /\ pc = "shrink" /\ typ = JPEG /\ shrinkOnLoad = 8 /\ shrink = 2
    /\ req.Enlarge /\ residual = One /\ AllCallsOk

====
